---------------------------- MODULE Spec2Model ----------------------------
(***************************************************************************)
(* GraphQL rate-limiting gate (graph-beaver / GraphQL-Gate).               *)
(*                                                                         *)
(*  - src/src/analysis/ASTnodefunctions.ts : the complexity walker         *)
(*  - src/src/middleware/index.ts          : the express middleware and    *)
(*                                           the per-client serializer     *)
(*  - src/src/middleware/rateLimiterSetup.ts : rate limiter selection      *)
(*                                                                         *)
(* The specifications that share the module:                               *)
(*   Spec, SpecHandler  the middleware returned by                         *)
(*              expressGraphQLRateLimiter and its serializer               *)
(*              (throttledProcess/processRequestResolver);                 *)
(*   SpecCalls, SpecPairs, SpecLive  the serializer under concurrent valid *)
(*              requests, SpecLive with a store that never fails;          *)
(*   SpecSetup  the construction part of expressGraphQLRateLimiter and     *)
(*              setupRateLimiter;                                          *)
(*   SpecBucket the token bucket admission operation (its source,          *)
(*              rateLimiters/tokenBucket, is not among the source files;   *)
(*              it is modelled from spec.md section 4.3);                  *)
(*   SpecAnalysis, SpecDocuments  one call of getQueryTypeComplexity.      *)
(***************************************************************************)
EXTENDS Integers, Sequences, FiniteSets, TLC

VARIABLES
    \* ---- Spec: middleware + serializer
    dark,          \* middlewareSetup.dark
    now,           \* the last value read from the clock (new Date().valueOf())
    reqs,          \* the requests handled so far, in arrival order
    requestQueue,  \* requestQueue: userId -> sequence of request ids
    listeners,     \* requestEvents: the once-listeners, in registration order
    \* ---- SpecSetup
    setupIn,       \* the arguments of expressGraphQLRateLimiter
    setupOut,      \* what the construction produced
    \* ---- SpecBucket
    bucket,        \* the TokenBucket parameters
    store,         \* the counter store row of the one client
    blog,          \* history: the admissions processed, with their results
    \* ---- SpecAnalysis
    analysisIn,    \* the arguments of getQueryTypeComplexity
    analysisOut    \* what the call produced

vars == <<dark, now, reqs, requestQueue, listeners,
          setupIn, setupOut, bucket, store, blog, analysisIn, analysisOut>>

mwVars     == <<dark, now, reqs, requestQueue, listeners>>
setupVars  == <<setupIn, setupOut>>
bucketVars == <<bucket, store, blog>>
analysisVars == <<analysisIn, analysisOut>>

(***************************************************************************)
(* Bounds of the model.                                                    *)
(***************************************************************************)
MaxRequests == 3
MaxTime == 2
MaxHandled == 2
MaxCalls == 3
MaxPairCalls == 4

(***************************************************************************)
(* Values shared by the parts.                                             *)
(***************************************************************************)
Undefined == "undefined"

\* The result of a call that may throw.
Ok(v) == [err |-> FALSE, val |-> v]
Throw == [err |-> TRUE, val |-> 0]

(***************************************************************************)
(* The complexity walker, src/src/analysis/ASTnodefunctions.ts.            *)
(*                                                                         *)
(* A field node is [kind, name, alias, arguments, selectionSet]; an        *)
(* absent selection set is <<>> and a present one <<[selections |-> s]>>.  *)
(* A type weight table maps a type name to [weight, fields]; a field       *)
(* descriptor is a number [tag |-> "number"], a callable multiplier        *)
(* [tag |-> "function"] or a non-callable object [tag |-> "object"]; a     *)
(* field with no descriptor is undefined.                                  *)
(***************************************************************************)

\* String.prototype.toLocaleLowerCase on the names the model uses.
toLocaleLowerCase(s) ==
    CASE s = "Scalars" -> "scalars"
      [] s = "Test"    -> "test"
      [] s = "Query"   -> "query"
      [] OTHER         -> s

\* key in typeWeights
In(key, typeWeights) == key \in DOMAIN typeWeights

\* typeWeights[parentName].fields[name]
FieldDescriptor(typeWeights, parentName, name) ==
    IF name \in DOMAIN typeWeights[parentName].fields
    THEN typeWeights[parentName].fields[name]
    ELSE [tag |-> Undefined]

\* A request's variables: a mapping from variable name to integer.
NoVariables == [x \in {} |-> 0]

\* variables[node.name.value], the second argument the walker hands to a
\* multiplier.  The variables hold integers, so the entry under the field's
\* name is undefined or a number, and neither has a variable's value in it.
Given(variables, name) ==
    [defined |-> name \in DOMAIN variables, map |-> NoVariables]

\* The schema default of a bounded list field, when it has one.
RuleDefault(rule) == IF rule.hasDefault THEN Ok(rule.default) ELSE Throw

\* The value of an argument node: a literal, or a variable reference looked up
\* in the value handed to the multiplier (reading a property of undefined
\* throws; a variable that is not there falls back to the schema default).
ArgValue(arg, given, rule) ==
    IF arg.value.kind = "IntValue" THEN Ok(arg.value.value)
    ELSE IF arg.value.kind = "Variable"
         THEN IF ~given.defined THEN Throw
              ELSE IF arg.value.name \in DOMAIN given.map
                   THEN Ok(given.map[arg.value.name])
                   ELSE RuleDefault(rule)
         ELSE Throw

\* The multiplier rule of a bounded list field: the value of the slicing
\* argument, the schema default when the argument is absent.
Multiplier(rule, arguments, given) ==
    LET hits == {i \in 1..Len(arguments) : arguments[i].name = rule.slicing}
    IN  IF hits /= {}
        THEN ArgValue(arguments[CHOOSE i \in hits : \A j \in hits : i <= j],
                      given, rule)
        ELSE RuleDefault(rule)

\* complexity = selectionsCost <= 1 ? selectionsCost + weight : selectionsCost * weight
Combine(selectionsCost, weight) ==
    IF selectionsCost <= 1 THEN selectionsCost + weight ELSE selectionsCost * weight

RECURSIVE fieldNode(_, _, _, _), selectionNode(_, _, _, _), selectionSetNode(_, _, _, _),
          selectionSetLoop(_, _, _, _, _)

fieldNode(node, typeWeights, variables, parentName) ==
    IF In(toLocaleLowerCase(node.name), typeWeights)
    THEN \* field is an object type with possible selections
         IF ~In(node.name, typeWeights)
         THEN Throw   \* const { weight } = undefined
         ELSE LET weight == typeWeights[node.name].weight
                  sel == IF node.selectionSet /= <<>>
                         THEN selectionSetNode(node.selectionSet[1], typeWeights,
                                               variables, node.name)
                         ELSE Ok(0)
              IN  IF sel.err THEN Throw ELSE Ok(Combine(sel.val, weight))
    ELSE \* field is a scalar or a list
         IF ~In(parentName, typeWeights)
         THEN Throw   \* typeWeights[parentName] is undefined
         ELSE LET fieldWeight == FieldDescriptor(typeWeights, parentName, node.name)
              IN  IF fieldWeight.tag = "number"
                  THEN Ok(fieldWeight.weight)
                  ELSE LET sel == IF node.selectionSet /= <<>>
                                  THEN selectionSetNode(node.selectionSet[1], typeWeights,
                                                        variables, node.name)
                                  ELSE Ok(0)
                           \* node.arguments is an array, which is truthy
                           w == IF fieldWeight.tag = "function"
                                THEN Multiplier(fieldWeight, node.arguments,
                                                Given(variables, node.name))
                                ELSE Throw   \* fieldWeight is not a function
                       IN  IF sel.err \/ w.err THEN Throw
                           ELSE Ok(Combine(sel.val, w.val))

\* Mutant: an inline fragment's selections are costed under the same parent.
selectionNodeWalksInline(node, typeWeights, variables, parentName) ==
    IF node.kind = "Field"
    THEN fieldNode(node, typeWeights, variables, parentName)
    ELSE IF node.selectionSet /= <<>>
         THEN selectionSetNode(node.selectionSet[1], typeWeights, variables, parentName)
         ELSE Ok(0)

selectionNode(node, typeWeights, variables, parentName) ==
    IF node.kind = "Field"
    THEN fieldNode(node, typeWeights, variables, parentName)
    ELSE Ok(0)

selectionSetLoop(selections, i, typeWeights, variables, parentName) ==
    IF i > Len(selections) THEN Ok(0)
    ELSE LET c == selectionNode(selections[i], typeWeights, variables, parentName)
         IN  IF c.err THEN Throw
             ELSE LET rest == selectionSetLoop(selections, i + 1, typeWeights,
                                               variables, parentName)
                  IN  IF rest.err THEN Throw ELSE Ok(c.val + rest.val)

\* Mutant: selections of the same field are merged whatever their aliases,
\* and only the first of them is costed.
selectionSetNodeMerged(node, typeWeights, variables, parentName) ==
    LET selections == node.selections
        merged == [k \in 1..Len(selections) |->
                      IF \E j \in 1..(k - 1) : selections[j].name = selections[k].name
                      THEN [selections[k] EXCEPT !.kind = "Merged"]
                      ELSE selections[k]]
    IN  selectionSetLoop(merged, 1, typeWeights, variables, parentName)

selectionSetNode(node, typeWeights, variables, parentName) ==
    selectionSetLoop(node.selections, 1, typeWeights, variables, parentName)

\* Mutant: the operation's own weight is left out of the total.
definitionNodeWithoutRootWeight(node, typeWeights, variables) ==
    IF node.kind = "OperationDefinition" /\ In(toLocaleLowerCase(node.operation), typeWeights)
                                         /\ node.selectionSet /= <<>>
    THEN selectionSetNode(node.selectionSet[1], typeWeights, variables, node.operation)
    ELSE Ok(0)

\* Mutant: an operation whose kind is not in the table is walked as a query,
\* without a weight of its own.
definitionNodeAsQuery(node, typeWeights, variables) ==
    IF node.kind = "OperationDefinition"
    THEN LET sel == IF node.selectionSet /= <<>>
                    THEN selectionSetNode(node.selectionSet[1], typeWeights, variables,
                                          IF In(node.operation, typeWeights)
                                          THEN node.operation ELSE "query")
                    ELSE Ok(0)
         IN  IF sel.err THEN Throw
             ELSE Ok((IF In(node.operation, typeWeights)
                      THEN typeWeights[node.operation].weight ELSE 0) + sel.val)
    ELSE Ok(0)

definitionNode(node, typeWeights, variables) ==
    IF node.kind = "OperationDefinition"
    THEN IF In(toLocaleLowerCase(node.operation), typeWeights)
         THEN IF ~In(node.operation, typeWeights)
              THEN Throw   \* typeWeights[node.operation] is undefined
              ELSE LET sel == IF node.selectionSet /= <<>>
                              THEN selectionSetNode(node.selectionSet[1], typeWeights,
                                                    variables, node.operation)
                              ELSE Ok(0)
                   IN  IF sel.err THEN Throw
                       ELSE Ok(typeWeights[node.operation].weight + sel.val)
         ELSE Ok(0)
    ELSE Ok(0)

RECURSIVE documentLoop(_, _, _, _)
documentLoop(definitions, i, typeWeights, variables) ==
    IF i > Len(definitions) THEN Ok(0)
    ELSE LET c == definitionNode(definitions[i], typeWeights, variables)
         IN  IF c.err THEN Throw
             ELSE LET rest == documentLoop(definitions, i + 1, typeWeights, variables)
                  IN  IF rest.err THEN Throw ELSE Ok(c.val + rest.val)

documentNode(node, typeWeights, variables) ==
    documentLoop(node.definitions, 1, typeWeights, variables)

\* analysis/typeComplexityAnalysis: the entry point the middleware and the tests call.
getQueryTypeComplexity(queryAST, variables, typeWeights) ==
    documentNode(queryAST, typeWeights, variables)


(***************************************************************************)
(* The inputs of the middleware: the weight table built at construction    *)
(* and the request bodies.                                                 *)
(***************************************************************************)
Num(w) == [tag |-> "number", weight |-> w]
List(slicing, hasDefault, default) ==
    [tag |-> "function", slicing |-> slicing, hasDefault |-> hasDefault, default |-> default]

\* buildTypeWeightsFromSchema(schema, middlewareSetup.typeWeights) for
\*   type Query   { scalars: Scalars, reviews(first: Int = 5): [Review], hero: Character }
\*   type Scalars { num: Int, id: ID, test: Test }
\*   type Test    { name: String, scalars: Scalars }
\*   type Review  { stars: Int! }
\* An object-typed field has no descriptor of its own: the walker recognises it
\* by its name being a type key.
typeWeightObject ==
    [query   |-> [weight |-> 1, fields |-> [reviews |-> List("first", TRUE, 5)]],
     scalars |-> [weight |-> 1, fields |-> [num |-> Num(0), id |-> Num(0)]],
     test    |-> [weight |-> 1, fields |-> [name |-> Num(0)]],
     review  |-> [weight |-> 1, fields |-> [stars |-> Num(0)]],
     character |-> [weight |-> 1, fields |-> [name |-> Num(0)]]]

Field(name, arguments, selectionSet) ==
    [kind |-> "Field", name |-> name, alias |-> "", arguments |-> arguments,
     selectionSet |-> selectionSet]
Leaf(name) == Field(name, <<>>, <<>>)
SelectionSet(selections) == <<[selections |-> selections]>>
\* An argument node [name, value]; a value node is [kind, name, value]: an
\* integer literal, an enum literal or a variable reference.
IntArg(name, n) ==
    [name |-> name, value |-> [kind |-> "IntValue", name |-> "", value |-> n]]
EnumArg(name, e) ==
    [name |-> name, value |-> [kind |-> "EnumValue", name |-> e, value |-> 0]]
VarArg(name, v) ==
    [name |-> name, value |-> [kind |-> "Variable", name |-> v, value |-> 0]]
Aliased(alias, field) == [field EXCEPT !.alias = alias]
Operation(operation, selections) ==
    [definitions |-> <<[kind |-> "OperationDefinition", operation |-> operation,
                        selectionSet |-> SelectionSet(selections)]>>]
Query(selections) ==
    [definitions |-> <<[kind |-> "OperationDefinition", operation |-> "query",
                        selectionSet |-> SelectionSet(selections)]>>]
NoDocument == [definitions |-> <<>>]

\* req.body together with what graphql's parse and validate make of it.
\*   hasQuery : req.body.query is truthy
\*   parses   : parse(query) returns (it throws a GraphQLError otherwise)
\*   nErrors  : validate(schema, queryAST).length
Body(name, hasQuery, parses, nErrors, ast) ==
    [name |-> name, hasQuery |-> hasQuery, parses |-> parses, nErrors |-> nErrors,
     queryAST |-> ast, variables |-> NoVariables]

\* (no query)
BodyNone    == Body("none", FALSE, FALSE, 0, NoDocument)
\* query { scalars {
BodySyntax  == Body("syntax", TRUE, FALSE, 0, NoDocument)
\* query { scalars }             (an object field selected without subfields)
BodyInvalid == Body("invalid", TRUE, TRUE, 1, Query(<<Leaf("scalars")>>))
\* query { scalars { num } }
BodyValid   == Body("valid", TRUE, TRUE, 0,
                    Query(<<Field("scalars", <<>>, SelectionSet(<<Leaf("num")>>))>>))
\* query { scalars { num test { name } } test { name } }
BodyNested  == Body("nested", TRUE, TRUE, 0,
                    Query(<<Field("scalars", <<>>, SelectionSet(<<Leaf("num"),
                              Field("test", <<>>, SelectionSet(<<Leaf("name")>>))>>)),
                            Field("test", <<>>, SelectionSet(<<Leaf("name")>>))>>))
\* query { hero { name } }       (valid, and hero has no descriptor)
BodyHero    == Body("hero", TRUE, TRUE, 0,
                    Query(<<Field("hero", <<>>, SelectionSet(<<Leaf("name")>>))>>))

Bodies == {BodyNone, BodySyntax, BodyInvalid, BodyValid, BodyNested, BodyHero}


(***************************************************************************)
(* The middleware, src/src/middleware/index.ts.                            *)
(*                                                                         *)
(* A request record holds what the handler has done for it:                *)
(*   pc       "waiting"  : queued behind another call, once-listener set   *)
(*            "inflight" : rateLimiter.processRequest called, not returned *)
(*            "resolved" / "rejected" : the throttledProcess promise is    *)
(*                         settled, the handler has not resumed yet        *)
(*            "done"     : the handler has finished                        *)
(*   sent     the status codes of the res.status(..).json(..) calls made   *)
(*   headers  the response headers the handler set                         *)
(*   nexts    the calls of next made: "next" for next(), "error" for       *)
(*            next(err)                                                    *)
(*   threw    the handler's own promise rejected (an error escaped it)     *)
(***************************************************************************)

\* Express's req.ips is an array (empty unless a trusted proxy forwarded the
\* request); req.ip is the direct address.
Direct(ip) == [name |-> ip, ips |-> <<>>, ip |-> ip]
Proxied(ips, ip) == [name |-> ips[1], ips |-> ips, ip |-> ip]

\* const ip = req.ips ? req.ips[0] : req.ip      (an array is truthy)
ClientIp(addr) == IF Len(addr.ips) > 0 THEN addr.ips[1] ELSE Undefined

\* `${n}`: the decimal digits of a non-negative integer.
RECURSIVE Digits(_)
Digits(n) == IF n < 10 THEN <<n>> ELSE Digits(n \div 10) \o <<n % 10>>

\* const requestId = `${timestamp}${tokens}`
RequestId(timestamp, tokens) == Digits(timestamp) \o Digits(tokens)

\* requestQueue[userId].push(requestId), creating the queue when absent
Push(queue, userId, requestId) ==
    IF userId \in DOMAIN queue
    THEN [queue EXCEPT ![userId] = Append(@, requestId)]
    ELSE [u \in DOMAIN queue \cup {userId} |->
             IF u = userId THEN <<requestId>> ELSE queue[u]]

\* requestQueue[userId].length > 1
MustWait(queue, userId) == Len(queue[userId]) > 1

\* Array.prototype.slice(1)
Slice1(s) == IF s = <<>> THEN <<>> ELSE Tail(s)

\* requestQueue[userId][0]; undefined (no digit string) for an empty queue
UndefinedEvent == <<>>
\* Mutant: the completion emits nothing that a listener waits for.
HeadEventLost(s) == UndefinedEvent
HeadEvent(s) == IF s = <<>> THEN UndefinedEvent ELSE Head(s)

\* delete requestQueue[userId]
Delete(queue, userId) == [u \in DOMAIN queue \ {userId} |-> queue[u]]

\* the once-listeners registered for an event, in registration order
ListenersOf(event) == SelectSeq(listeners, LAMBDA l : l.event = event)

\* Mutant: the rejection ignores dark mode.
BlockedIgnoringDark(response, isDark) == ~response.success

\* !rateLimiterResponse.success && !middlewareSetup.dark
Blocked(response, isDark) == ~response.success /\ ~isDark

\* The headers the handler sets on the 429 response (the Retry-After line is
\* commented out in the source).
RejectionHeaders(response) == {}

NoResponse == [success |-> FALSE, tokens |-> 0, args |-> <<>>]
NoLocals == [set |-> FALSE, timestamp |-> 0, complexity |-> 0, tokens |-> 0,
             success |-> FALSE]

\* What rateLimiter.processRequest(userId, timestamp, tokens) may resolve with.
BucketResponses(userId, timestamp, tokens) ==
    {[success |-> TRUE, tokens |-> 3, args |-> <<userId, timestamp, tokens>>],
     [success |-> FALSE, tokens |-> 1, args |-> <<userId, timestamp, tokens>>]}

NewRequest(addr, body, requestTimestamp) ==
    [addr |-> addr.name, body |-> body.name, hasQuery |-> body.hasQuery,
     parsed |-> body.hasQuery /\ body.parses,
     nErrors |-> IF body.hasQuery /\ body.parses THEN body.nErrors ELSE 0,
     analysisThrew |-> FALSE, timestamp |-> requestTimestamp,
     ip |-> Undefined, complexity |-> 0, requestId |-> <<>>, entered |-> FALSE,
     pc |-> "done", invocations |-> 0, failed |-> FALSE, response |-> NoResponse,
     sent |-> <<>>, headers |-> {}, nexts |-> <<>>, threw |-> FALSE,
     locals |-> NoLocals]

\* Mutant: a call that must wait registers its listener and is invoked at once
\* as well.
throttledProcessAlsoInvokes(i, r, userId, timestamp, tokens) ==
    LET requestId == RequestId(timestamp, tokens)
        queue == Push(requestQueue, userId, requestId)
        wait == MustWait(queue, userId)
    IN  /\ requestQueue' = queue
        /\ listeners' = IF wait
                        THEN Append(listeners, [event |-> requestId, req |-> i])
                        ELSE listeners
        /\ reqs' = Append(reqs, [r EXCEPT !.ip = userId, !.complexity = tokens,
                                          !.requestId = requestId, !.entered = TRUE,
                                          !.pc = "inflight", !.invocations = 1])

\* throttledProcess(userId, timestamp, tokens) up to the promise it returns, for
\* the request record r that becomes request i.  invocations counts the calls
\* of rateLimiter.processRequest made for it.
throttledProcess(i, r, userId, timestamp, tokens) ==
    LET requestId == RequestId(timestamp, tokens)
        queue == Push(requestQueue, userId, requestId)
        wait == MustWait(queue, userId)
    IN  /\ requestQueue' = queue
        /\ listeners' = IF wait
                        THEN Append(listeners, [event |-> requestId, req |-> i])
                        ELSE listeners
        /\ reqs' = Append(reqs, [r EXCEPT !.ip = userId, !.complexity = tokens,
                                          !.requestId = requestId, !.entered = TRUE,
                                          !.pc = IF wait THEN "waiting" ELSE "inflight",
                                          !.invocations = IF wait THEN 0 ELSE 1])

\* A settled throttledProcess promise resumes its handler in a microtask: the
\* microtask queue is drained before node runs the next macrotask (a new
\* request) and before the clock is read again.
MicrotaskPending == \E i \in DOMAIN reqs : reqs[i].pc \in {"resolved", "rejected"}

\* The returned middleware, from its call to its first await.
HandleRequest(addr, body, elapsed) ==
    /\ ~MicrotaskPending
    /\ now + elapsed <= MaxTime
    /\ now' = now + elapsed
    /\ UNCHANGED dark
    /\ LET i == Len(reqs) + 1
           \* const requestTimestamp = new Date().valueOf()
           requestTimestamp == now + elapsed
           r == NewRequest(addr, body, requestTimestamp)
       IN  IF ~body.hasQuery
           THEN /\ reqs' = Append(reqs, [r EXCEPT !.nexts = <<"next">>])
                /\ UNCHANGED <<requestQueue, listeners>>
           ELSE LET ip == ClientIp(addr) IN
                IF ~body.parses
                THEN \* parse(query) throws
                     /\ reqs' = Append(reqs, [r EXCEPT !.threw = TRUE])
                     /\ UNCHANGED <<requestQueue, listeners>>
                ELSE LET r1 == IF body.nErrors > 0
                               THEN [r EXCEPT !.sent = <<400>>]
                               ELSE r
                         queryComplexity ==
                             getQueryTypeComplexity(body.queryAST, body.variables,
                                                    typeWeightObject)
                     IN  IF queryComplexity.err
                         THEN /\ reqs' = Append(reqs, [r1 EXCEPT !.threw = TRUE,
                                                                 !.analysisThrew = TRUE])
                              /\ UNCHANGED <<requestQueue, listeners>>
                         ELSE throttledProcess(i, r1, ip, requestTimestamp,
                                               queryComplexity.val)

\* processRequestResolver after rateLimiter.processRequest has returned.
ResolverReturns(i, response) ==
    LET userId == reqs[i].ip IN
    IF userId \notin DOMAIN requestQueue
    THEN \* requestQueue[userId].slice throws inside the try
         /\ reqs' = [reqs EXCEPT ![i].pc = "rejected", ![i].failed = TRUE]
         /\ UNCHANGED <<requestQueue, listeners>>
    ELSE LET sliced == Slice1(requestQueue[userId])
             woken == ListenersOf(HeadEvent(sliced))
             wokenReqs == {woken[k].req : k \in 1..Len(woken)}
         IN  /\ reqs' = [j \in DOMAIN reqs |->
                           IF j = i
                           THEN [reqs[j] EXCEPT !.pc = "resolved", !.response = response]
                           ELSE IF j \in wokenReqs
                                THEN [reqs[j] EXCEPT !.pc = "inflight",
                                                     !.invocations = @ + 1]
                                ELSE reqs[j]]
             /\ listeners' = SelectSeq(listeners, LAMBDA l : l.event /= HeadEvent(sliced))
             /\ requestQueue' = IF Len(sliced) = 0
                                THEN Delete(requestQueue, userId)
                                ELSE [requestQueue EXCEPT ![userId] = sliced]

\* processRequestResolver after rateLimiter.processRequest has thrown.
ResolverCatches(i) ==
    /\ reqs' = [reqs EXCEPT ![i].pc = "rejected", ![i].failed = TRUE]
    /\ UNCHANGED <<requestQueue, listeners>>

\* Mutant: every call is answered with the result of the first call's
\* arguments.
BucketReturnsFirstResult(i) ==
    /\ i \in DOMAIN reqs
    /\ reqs[i].pc = "inflight"
    /\ \E response \in BucketResponses(reqs[1].ip, reqs[1].timestamp, reqs[1].complexity) :
           ResolverReturns(i, response)
    /\ UNCHANGED <<dark, now>>

\* rateLimiter.processRequest returns for an in-flight call.
BucketReturns(i) ==
    /\ i \in DOMAIN reqs
    /\ reqs[i].pc = "inflight"
    /\ \E response \in BucketResponses(reqs[i].ip, reqs[i].timestamp, reqs[i].complexity) :
           ResolverReturns(i, response)
    /\ UNCHANGED <<dark, now>>

\* rateLimiter.processRequest fails with a store error.
BucketThrows(i) ==
    /\ i \in DOMAIN reqs
    /\ reqs[i].pc = "inflight"
    /\ ResolverCatches(i)
    /\ UNCHANGED <<dark, now>>

\* The handler resumes after await throttledProcess(...).  A second
\* res.status(..).json(..) on a response that was already sent either throws
\* (headers already sent) or is dropped.
HandlerResumes(i, secondSendThrows) ==
    /\ i \in DOMAIN reqs
    /\ reqs[i].pc \in {"resolved", "rejected"}
    /\ UNCHANGED <<dark, now, requestQueue, listeners>>
    /\ LET r == reqs[i]
           rateLimiterResponse == r.response
           locals == [set |-> TRUE, timestamp |-> r.timestamp,
                      complexity |-> r.complexity,
                      tokens |-> rateLimiterResponse.tokens,
                      success |-> rateLimiterResponse.success]
       IN  IF r.pc = "rejected"
           THEN /\ secondSendThrows = FALSE
                /\ reqs' = [reqs EXCEPT ![i].pc = "done",
                                        ![i].nexts = Append(@, "error")]
           ELSE IF Blocked(rateLimiterResponse, dark)
                THEN IF secondSendThrows
                     THEN /\ r.sent /= <<>>
                          /\ reqs' = [reqs EXCEPT ![i].pc = "done",
                                                  ![i].locals = locals,
                                                  ![i].nexts = Append(@, "error")]
                     ELSE reqs' = [reqs EXCEPT ![i].pc = "done",
                                               ![i].locals = locals,
                                               ![i].sent = Append(@, 429),
                                               ![i].headers =
                                                   RejectionHeaders(rateLimiterResponse)]
                ELSE /\ secondSendThrows = FALSE
                     /\ reqs' = [reqs EXCEPT ![i].pc = "done",
                                             ![i].locals = locals,
                                             ![i].nexts = Append(@, "next")]

\* The requests the host hands to the middleware: who sends, and what.
Arrivals ==
    {<<Direct("a"), BodyValid>>, <<Proxied(<<"p", "a">>, "a"), BodyValid>>,
     <<Direct("a"), BodyNested>>, <<Direct("a"), BodyInvalid>>,
     <<Direct("a"), BodyNone>>, <<Direct("a"), BodySyntax>>,
     <<Direct("a"), BodyHero>>, <<Direct("b"), BodyValid>>}

EmptyQueue == [u \in {} |-> <<>>]

IdleMiddleware ==
    /\ dark = FALSE /\ now = 0 /\ reqs = <<>> /\ requestQueue = EmptyQueue
    /\ listeners = <<>>
IdleSetup == setupIn = <<>> /\ setupOut = <<>>
IdleBucket == bucket = <<>> /\ store = <<>> /\ blog = <<>>
IdleAnalysis == analysisIn = <<>> /\ analysisOut = <<>>

\* The state in which expressGraphQLRateLimiter hands out the middleware.
Init ==
    /\ dark \in BOOLEAN
    /\ now = 1
    /\ reqs = <<>>
    /\ requestQueue = EmptyQueue
    /\ listeners = <<>>
    /\ IdleSetup
    /\ IdleBucket
    /\ IdleAnalysis

Next ==
    \/ /\ Len(reqs) < MaxRequests
       /\ \E a \in Arrivals, elapsed \in 0..1 : HandleRequest(a[1], a[2], elapsed)
       /\ UNCHANGED <<setupVars, bucketVars, analysisVars>>
    \/ /\ \E i \in 1..MaxRequests : BucketReturns(i)
       /\ UNCHANGED <<setupVars, bucketVars, analysisVars>>
    \/ /\ \E i \in 1..MaxRequests : BucketThrows(i)
       /\ UNCHANGED <<setupVars, bucketVars, analysisVars>>
    \/ /\ \E i \in 1..MaxRequests, t \in BOOLEAN : HandlerResumes(i, t)
       /\ UNCHANGED <<setupVars, bucketVars, analysisVars>>

Spec == Init /\ [][Next]_vars

\* The same middleware serving at most MaxHandled requests.
NextHandler ==
    \/ /\ Len(reqs) < MaxHandled
       /\ \E a \in Arrivals, elapsed \in 0..1 : HandleRequest(a[1], a[2], elapsed)
       /\ UNCHANGED <<setupVars, bucketVars, analysisVars>>
    \/ /\ \E i \in 1..MaxHandled : BucketReturns(i)
       /\ UNCHANGED <<setupVars, bucketVars, analysisVars>>
    \/ /\ \E i \in 1..MaxHandled : BucketThrows(i)
       /\ UNCHANGED <<setupVars, bucketVars, analysisVars>>
    \/ /\ \E i \in 1..MaxHandled, t \in BOOLEAN : HandlerResumes(i, t)
       /\ UNCHANGED <<setupVars, bucketVars, analysisVars>>

SpecHandler == Init /\ [][NextHandler]_vars

\* The serializer under concurrent valid requests of two clients that arrive
\* within one millisecond: at most MaxCalls calls of throttledProcess.
CallArrivals ==
    {<<Direct("a"), BodyValid>>, <<Direct("a"), BodyNested>>,
     <<Proxied(<<"p", "a">>, "a"), BodyValid>>,
     <<Proxied(<<"p", "a">>, "a"), BodyNested>>}

InitCalls ==
    /\ dark = FALSE
    /\ now = 1
    /\ reqs = <<>>
    /\ requestQueue = EmptyQueue
    /\ listeners = <<>>
    /\ IdleSetup
    /\ IdleBucket
    /\ IdleAnalysis

NextCalls ==
    \/ /\ Len(reqs) < MaxCalls
       /\ \E a \in CallArrivals : HandleRequest(a[1], a[2], 0)
       /\ UNCHANGED <<setupVars, bucketVars, analysisVars>>
    \/ /\ \E i \in 1..MaxCalls : BucketReturns(i)
       /\ UNCHANGED <<setupVars, bucketVars, analysisVars>>
    \/ /\ \E i \in 1..MaxCalls : BucketThrows(i)
       /\ UNCHANGED <<setupVars, bucketVars, analysisVars>>
    \/ /\ \E i \in 1..MaxCalls, t \in BOOLEAN : HandlerResumes(i, t)
       /\ UNCHANGED <<setupVars, bucketVars, analysisVars>>

SpecCalls == InitCalls /\ [][NextCalls]_vars

\* The same serializer when the store never fails: every bucket call that is
\* in flight eventually returns, and a settled promise's continuation is a
\* microtask that node always runs.
LiveArrivals ==
    {<<Direct("a"), BodyValid>>, <<Direct("a"), BodyNested>>,
     <<Proxied(<<"p", "a">>, "a"), BodyValid>>}

NextLive ==
    \/ /\ Len(reqs) < MaxCalls
       /\ \E a \in LiveArrivals : HandleRequest(a[1], a[2], 0)
       /\ UNCHANGED <<setupVars, bucketVars, analysisVars>>
    \/ /\ \E i \in 1..MaxCalls : BucketReturns(i)
       /\ UNCHANGED <<setupVars, bucketVars, analysisVars>>
    \/ /\ \E i \in 1..MaxCalls, t \in BOOLEAN : HandlerResumes(i, t)
       /\ UNCHANGED <<setupVars, bucketVars, analysisVars>>

\* Two calls of each of two clients, all with one timestamp and one cost.
PairArrivals ==
    {<<Direct("a"), BodyValid>>, <<Proxied(<<"p", "a">>, "a"), BodyValid>>}

NextPairs ==
    \/ /\ Len(reqs) < MaxPairCalls
       /\ \E a \in PairArrivals : HandleRequest(a[1], a[2], 0)
       /\ UNCHANGED <<setupVars, bucketVars, analysisVars>>
    \/ /\ \E i \in 1..MaxPairCalls : BucketReturns(i)
       /\ UNCHANGED <<setupVars, bucketVars, analysisVars>>
    \/ /\ \E i \in 1..MaxPairCalls : BucketThrows(i)
       /\ UNCHANGED <<setupVars, bucketVars, analysisVars>>
    \/ /\ \E i \in 1..MaxPairCalls, t \in BOOLEAN : HandlerResumes(i, t)
       /\ UNCHANGED <<setupVars, bucketVars, analysisVars>>

SpecPairs == InitCalls /\ [][NextPairs]_vars

SpecLive ==
    /\ InitCalls
    /\ [][NextLive]_vars
    /\ \A i \in 1..MaxCalls :
           /\ WF_vars(BucketReturns(i)
                        /\ UNCHANGED <<setupVars, bucketVars, analysisVars>>)
           /\ WF_vars((\E t \in BOOLEAN : HandlerResumes(i, t))
                        /\ UNCHANGED <<setupVars, bucketVars, analysisVars>>)


(***************************************************************************)
(* Properties of the middleware and its serializer (Spec).                 *)
(***************************************************************************)
Entered == {i \in DOMAIN reqs : reqs[i].entered}
InFlight(userId) == {i \in Entered : reqs[i].ip = userId /\ reqs[i].pc = "inflight"}
Waiting(userId) == {i \in Entered : reqs[i].ip = userId /\ reqs[i].pc = "waiting"}
QueueLen(userId) ==
    IF userId \in DOMAIN requestQueue THEN Len(requestQueue[userId]) ELSE 0
\* the bucket answered request i and its handler has finished
Answered(i) == reqs[i].pc = "done" /\ reqs[i].response /= NoResponse
\* the bucket call of request i has started / its promise has settled
Started(i) == reqs[i].pc \in {"inflight", "resolved", "rejected", "done"}
Settled(i) == reqs[i].pc \in {"resolved", "rejected", "done"}

\* C1: for every clientId at most one rateLimiter.processRequest call is in
\* flight at any time.
C1_MutualExclusion ==
    \A i \in Entered : Cardinality(InFlight(reqs[i].ip)) <= 1

\* C2: for any single client the bucket calls are started, and the callers'
\* promises settled, in the order in which the calls entered throttledProcess.
C2_PerClientFifo ==
    \A i, j \in Entered :
        (i < j /\ reqs[i].ip = reqs[j].ip) =>
            /\ Started(j) => Started(i)
            /\ Settled(j) => Settled(i)

\* C3: when the bucket call fails with a store error, the error reaches the
\* caller, the failed call's token leaves the queue and the next waiting call
\* is woken: the queue holds exactly the calls still waiting or in flight, and
\* no call waits while no call of its client is in flight.
C3_ErrorAdvancesQueue ==
    \A i \in Entered :
        reqs[i].failed =>
            /\ reqs[i].pc \in {"rejected", "done"}
            /\ reqs[i].pc = "done" => reqs[i].nexts = <<"error">>
            /\ QueueLen(reqs[i].ip) =
                   Cardinality(InFlight(reqs[i].ip) \cup Waiting(reqs[i].ip))
            /\ Waiting(reqs[i].ip) /= {} => InFlight(reqs[i].ip) /= {}

\* C6: in dark mode a request the bucket rejects is still passed on with
\* next(), no 429 is sent, and the record in res.locals.graphqlGate has
\* success = false; with dark mode off a request the bucket admits is passed
\* on with next() and the record's success = true.
C6_DarkModeAdmits ==
    \A i \in DOMAIN reqs :
        Answered(i) =>
            /\ (dark /\ ~reqs[i].response.success) =>
                   /\ reqs[i].nexts = <<"next">>
                   /\ \A k \in 1..Len(reqs[i].sent) : reqs[i].sent[k] /= 429
                   /\ reqs[i].locals.set /\ ~reqs[i].locals.success
            /\ (~dark /\ reqs[i].response.success) =>
                   /\ reqs[i].nexts = <<"next">>
                   /\ reqs[i].locals.set /\ reqs[i].locals.success

\* C6 witness: a dark-mode request that the bucket rejected has been answered.
C6_Witness ==
    \E i \in DOMAIN reqs :
        Answered(i) /\ dark /\ ~reqs[i].response.success /\ reqs[i].nexts = <<"next">>

\* C7: when the bucket rejects a (valid) request and dark mode is off, the
\* response is a 429 carrying a Retry-After header and the request is not
\* passed on.
C7_RejectionCarriesRetryAfter ==
    \A i \in DOMAIN reqs :
        (Answered(i) /\ reqs[i].nErrors = 0 /\ ~dark /\ ~reqs[i].response.success) =>
            /\ reqs[i].sent = <<429>>
            /\ "Retry-After" \in reqs[i].headers
            /\ reqs[i].nexts = <<>>

\* C8: a request whose query fails to parse or to validate ends as a 400
\* response and as nothing else: no error escapes the handler and the request
\* is not passed on.
C8_QueryErrorsAre400Only ==
    \A i \in DOMAIN reqs :
        (reqs[i].pc = "done" /\ reqs[i].hasQuery
            /\ (~reqs[i].parsed \/ reqs[i].nErrors > 0)) =>
            /\ reqs[i].sent = <<400>>
            /\ reqs[i].nexts = <<>>
            /\ ~reqs[i].threw

\* C9: an error raised while computing a request's complexity is handed to the
\* host with next(err), and the request never enters the serializer.
C9_AnalysisErrorHandedToHost ==
    \A i \in DOMAIN reqs :
        reqs[i].analysisThrew =>
            /\ reqs[i].nexts = <<"error">>
            /\ ~reqs[i].threw
            /\ ~reqs[i].entered

\* the calls that are queued or in flight
Pending == {i \in Entered : reqs[i].pc \in {"waiting", "inflight"}}

\* C11: the key a request is serialized and charged under is its first proxied
\* address when it has one and its direct address otherwise; so two requests
\* with different direct addresses and no proxied address get different keys.
C11_ClientIdentity ==
    /\ \A i \in Entered : reqs[i].ip = reqs[i].addr
    /\ \A i, j \in Entered :
           reqs[i].addr /= reqs[j].addr => reqs[i].ip /= reqs[j].ip

\* C20: the token of a call differs from the token of every other call that is
\* queued or in flight at the same time, of the same client or of any other.
C20_TokensUnique ==
    \A i, j \in Pending : i /= j => reqs[i].requestId /= reqs[j].requestId

\* C21: requestQueue has an entry for a client only while that client has a
\* call that is queued or in flight; once every call of the client has reached
\* its outcome (bucket success or bucket error) the entry is gone.
\* the bucket answered call i and its promise has been resolved with the answer
Resolved(i) ==
    /\ i \in DOMAIN reqs
    /\ reqs[i].pc \in {"resolved", "done"}
    /\ reqs[i].response /= NoResponse

C21_QueueLifecycle ==
    \A userId \in DOMAIN requestQueue :
        \E i \in Pending : reqs[i].ip = userId

\* C22: the value a throttledProcess(userId, timestamp, tokens) promise resolves
\* with is the result of the bucket call made with that call's own userId,
\* timestamp and tokens, whatever the interleaving.
C22_ResultRouting ==
    \A i \in Entered :
        Resolved(i) =>
            reqs[i].response.args = <<reqs[i].ip, reqs[i].timestamp, reqs[i].complexity>>

\* C22 witness: two calls with different arguments have both been resolved,
\* the later one first or while the earlier one was still outstanding.
C22_Witness ==
    \E i, j \in Entered :
        /\ i < j
        /\ <<reqs[i].ip, reqs[i].complexity>> /= <<reqs[j].ip, reqs[j].complexity>>
        /\ Resolved(i) /\ reqs[i].pc = "resolved"
        /\ Resolved(j) /\ reqs[j].pc = "done"

\* the call of request j starts in this step
Starts(j) ==
    /\ j \in DOMAIN reqs'
    /\ reqs'[j].pc = "inflight"
    /\ j \in DOMAIN reqs => reqs[j].pc /= "inflight"
\* the bucket call of request i completes in this step and wakes the next token
Completes(i) ==
    /\ i \in DOMAIN reqs
    /\ reqs[i].pc = "inflight"
    /\ reqs'[i].pc = "resolved"

\* C23: a call's bucket invocation begins only when the call's token is the
\* first element of requestQueue for its own client, and a completion for one
\* client never starts the call of another client.
C23_StartsAtHeadOfOwnQueue ==
    [][\A j \in 1..MaxPairCalls :
           Starts(j) =>
               /\ reqs'[j].ip \in DOMAIN requestQueue'
               /\ HeadEvent(requestQueue'[reqs'[j].ip]) = reqs'[j].requestId
               /\ \A i \in 1..MaxPairCalls :
                      Completes(i) => reqs[i].ip = reqs'[j].ip]_vars

\* C24: every call of throttledProcess leads to at most one invocation of
\* rateLimiter.processRequest, and to exactly one once it has been started.
C24_InvokedOnce ==
    \A i \in Entered :
        /\ reqs[i].invocations <= 1
        /\ Started(i) => reqs[i].invocations = 1

\* C24 witness: three calls of one client with the same token, the second and
\* the third woken by one completion, have all been invoked and answered.
C24_Witness ==
    \E i, j, k \in Entered :
        /\ i < j /\ j < k
        /\ reqs[i].ip = reqs[j].ip /\ reqs[j].ip = reqs[k].ip
        /\ reqs[j].requestId = reqs[k].requestId
        /\ Resolved(i) /\ Resolved(j) /\ Resolved(k)

\* C25: when no bucket call fails, every call that enters throttledProcess
\* eventually has its promise resolved with the bucket's answer.
C25_EveryCallIsResolved ==
    \A i \in 1..MaxCalls : (i \in Entered) ~> Resolved(i)

\* C25 witness: three calls of one client that share their timestamp and cost
\* have entered while the first was in flight, and all have been resolved.
C25_Witness ==
    /\ Len(reqs) = 3
    /\ \A i \in 1..3 :
           /\ reqs[i].ip = reqs[1].ip
           /\ reqs[i].requestId = reqs[1].requestId
           /\ Resolved(i)
    /\ reqs[3].pc = "resolved"

\* C26: for every request the handler has finished with, exactly one of a 400
\* response, a 429 response, next() and next(err) has happened, exactly once.
C26_SingleOutcome ==
    \A i \in DOMAIN reqs :
        reqs[i].pc = "done" => Len(reqs[i].sent) + Len(reqs[i].nexts) = 1

\* C27: a request with no query, or whose query fails validation, never enters
\* the serializer and so never invokes the bucket.
C27_OnlyValidQueriesCharged ==
    \A i \in DOMAIN reqs :
        (~reqs[i].hasQuery \/ reqs[i].nErrors > 0) => ~reqs[i].entered


(***************************************************************************)
(* Construction: expressGraphQLRateLimiter up to the middleware it         *)
(* returns, and setupRateLimiter (src/src/middleware/rateLimiterSetup.ts). *)
(* The file holds two definitions of setupRateLimiter; setupIn.definition  *)
(* says which of the two is in force.                                      *)
(***************************************************************************)
RateLimiterTypes ==
    {"TOKEN_BUCKET", "LEAKY_BUCKET", "FIXED_WINDOW", "SLIDING_WINDOW_LOG",
     "SLIDING_WINDOW_COUNTER", "UNKNOWN"}

NoLimiter == [kind |-> "none", capacity |-> 0, refillRate |-> 0,
              client |-> "none", keyExpiry |-> 0]

Returned(v) == [threw |-> FALSE, error |-> "", value |-> v]
Thrown(e) == [threw |-> TRUE, error |-> e, value |-> NoLimiter]

\* new TokenBucket(capacity, refillRate, client, keyExpiry)
TokenBucket(capacity, refillRate, client, keyExpiry) ==
    [kind |-> "TokenBucket", capacity |-> capacity, refillRate |-> refillRate,
     client |-> client, keyExpiry |-> keyExpiry]

\* Mutant: the LEAKY_BUCKET case does not throw and shares the TOKEN_BUCKET
\* case's return.
setupRateLimiterFallsThrough(rateLimiter, client, keyExpiry) ==
    CASE rateLimiter.type \in {"TOKEN_BUCKET", "LEAKY_BUCKET"} ->
             Returned(TokenBucket(rateLimiter.bucketSize, rateLimiter.refillRate,
                                  client, keyExpiry))
      [] OTHER ->
             Thrown("Selected rate limiting algorithm is not suppported")

\* The first definition of setupRateLimiter.
setupRateLimiter(rateLimiter, client, keyExpiry) ==
    CASE rateLimiter.type = "TOKEN_BUCKET" ->
             Returned(TokenBucket(rateLimiter.bucketSize, rateLimiter.refillRate,
                                  client, keyExpiry))
      [] rateLimiter.type = "LEAKY_BUCKET" ->
             Thrown("Leaky Bucket algonithm has not be implemented.")
      [] rateLimiter.type = "FIXED_WINDOW" ->
             Thrown("Fixed Window algonithm has not be implemented.")
      [] rateLimiter.type = "SLIDING_WINDOW_LOG" ->
             Thrown("Sliding Window Log has not be implemented.")
      [] rateLimiter.type = "SLIDING_WINDOW_COUNTER" ->
             Thrown("Sliding Window Counter algonithm has not be implemented.")
      [] OTHER ->
             Thrown("Selected rate limiting algorithm is not suppported")

\* The second definition of setupRateLimiter.  SlidingWindowLog,
\* SlidingWindowCounter and options are not declared in the file: evaluating
\* the new expression throws a ReferenceError.
setupRateLimiter2(rateLimiter, client, keyExpiry) ==
    CASE rateLimiter.type = "TOKEN_BUCKET" ->
             Returned(TokenBucket(rateLimiter.bucketSize, rateLimiter.refillRate,
                                  client, keyExpiry))
      [] rateLimiter.type = "LEAKY_BUCKET" ->
             Thrown("Leaky Bucket algonithm has not be implemented.")
      [] rateLimiter.type = "FIXED_WINDOW" ->
             Thrown("Fixed Window algonithm has not be implemented.")
      [] rateLimiter.type = "SLIDING_WINDOW_LOG" ->
             Thrown("ReferenceError: SlidingWindowLog is not defined")
      [] rateLimiter.type = "SLIDING_WINDOW_COUNTER" ->
             Thrown("ReferenceError: SlidingWindowCounter is not defined")
      [] OTHER ->
             Thrown("Selected rate limiting algorithm is not suppported")

DefaultKeyExpiry == 86400000

\* keyExpiry: middlewareConfig.redis?.keyExpiry || 86400000   (0 stands for an
\* absent or zero value, both falsy)
KeyExpiryOf(middlewareConfig) ==
    IF middlewareConfig.keyExpiry = 0 THEN DefaultKeyExpiry
    ELSE middlewareConfig.keyExpiry

\* The configurations handed to expressGraphQLRateLimiter.
MiddlewareConfigs ==
    [rateLimiter : [type : RateLimiterTypes, bucketSize : {5, 10}, refillRate : {1, 2}],
     keyExpiry : {0, 1000},
     dark : BOOLEAN]

SetupStart ==
    /\ setupIn \in [config : MiddlewareConfigs, definition : {1, 2},
                    schemaBuilds : BOOLEAN]
    /\ setupOut = [pc |-> "start", redisClient |-> "none", rateLimiter |-> NoLimiter,
                   error |-> "", handler |-> FALSE, dark |-> FALSE]

\* const middlewareSetup = {...};
\* const typeWeightObject = buildTypeWeightsFromSchema(...), which throws for a
\* schema or a weight configuration it rejects.
BuildTypeWeights ==
    /\ setupOut.pc = "start"
    /\ setupOut' = IF setupIn.schemaBuilds
                   THEN [setupOut EXCEPT !.pc = "weights", !.dark = setupIn.config.dark]
                   ELSE [setupOut EXCEPT !.pc = "threw",
                                         !.error = "buildTypeWeightsFromSchema"]
    /\ UNCHANGED setupIn

\* const redisClient = connect(middlewareSetup.redis.options);
Connect ==
    /\ setupOut.pc = "weights"
    /\ setupOut' = [setupOut EXCEPT !.pc = "connected", !.redisClient = "redis"]
    /\ UNCHANGED setupIn

\* const rateLimiter = setupRateLimiter(...); the rest of the function only
\* declares the serializer and returns the middleware.
SetupLimiter ==
    /\ setupOut.pc = "connected"
    /\ LET r == IF setupIn.definition = 1
                THEN setupRateLimiter(setupIn.config.rateLimiter, setupOut.redisClient,
                                      KeyExpiryOf(setupIn.config))
                ELSE setupRateLimiter2(setupIn.config.rateLimiter, setupOut.redisClient,
                                       KeyExpiryOf(setupIn.config))
       IN  setupOut' = IF r.threw
                       THEN [setupOut EXCEPT !.pc = "threw", !.error = r.error]
                       ELSE [setupOut EXCEPT !.pc = "returned", !.rateLimiter = r.value,
                                             !.handler = TRUE]
    /\ UNCHANGED setupIn

InitSetup == SetupStart /\ IdleMiddleware /\ IdleBucket /\ IdleAnalysis

NextSetup ==
    \/ BuildTypeWeights /\ UNCHANGED <<mwVars, bucketVars, analysisVars>>
    \/ Connect /\ UNCHANGED <<mwVars, bucketVars, analysisVars>>
    \/ SetupLimiter /\ UNCHANGED <<mwVars, bucketVars, analysisVars>>

SpecSetup == InitSetup /\ [][NextSetup]_vars


(***************************************************************************)
(* Properties of the construction (SpecSetup).                             *)
(***************************************************************************)
SetupType == setupIn.config.rateLimiter.type
SetupSettled == setupOut.pc \in {"returned", "threw"}

MaxAdmissions == 3

Milli == 1000

Min(a, b) == IF a <= b THEN a ELSE b

\* ceil(a / b) for b > 0
CeilDiv(a, b) == IF a % b = 0 THEN a \div b ELSE (a \div b) + 1

\* Step 1: the stored row, or { capacity, nowMs } when absent.
ReadRow(b, row, nowMs) ==
    IF row = <<>> THEN [tokens |-> b.capacity * Milli, lastRefill |-> nowMs]
    ELSE row[1]

\* Mutant: the refill counts whole elapsed seconds only.
RefillWholeSeconds(b, row, nowMs) ==
    Min(b.capacity * Milli,
        row.tokens + b.refillRate * (((nowMs - row.lastRefill) \div Milli) * Milli))

\* Step 2: tokens <- min(capacity, tokens + refillRate * (nowMs - lastRefill) / 1000)
Refill(b, row, nowMs) ==
    Min(b.capacity * Milli, row.tokens + b.refillRate * (nowMs - row.lastRefill))

\* Mutant: the wait is computed in seconds.
AdmissionRetryInSeconds(b, tokens, cost) ==
    IF tokens >= cost * Milli
    THEN [success |-> TRUE, tokens |-> tokens - cost * Milli, retryAfterMs |-> 0]
    ELSE [success |-> FALSE, tokens |-> tokens,
          retryAfterMs |-> CeilDiv(cost * Milli - tokens, b.refillRate * Milli)]

\* Steps 3 and 4: the admission record and the tokens left.
Admission(b, tokens, cost) ==
    IF tokens >= cost * Milli
    THEN [success |-> TRUE, tokens |-> tokens - cost * Milli, retryAfterMs |-> 0]
    ELSE [success |-> FALSE, tokens |-> tokens,
          retryAfterMs |-> CeilDiv(cost * Milli - tokens, b.refillRate)]

\* The admission operation: steps 1 to 5 as one atomic transaction.
processRequest(b, row, nowMs, cost) ==
    LET result == Admission(b, Refill(b, ReadRow(b, row, nowMs), nowMs), cost)
    IN  [result |-> result,
         row |-> <<[tokens |-> result.tokens, lastRefill |-> nowMs]>>]

BucketParameters == [capacity : {3, 10}, refillRate : {1, 2}]
Times == {0, 2, 1000, 2000}
Costs == {0, 1, 6, 11}

Admit(nowMs, cost) ==
    /\ Len(blog) < MaxAdmissions
    /\ LET r == processRequest(bucket, store, nowMs, cost)
       IN  /\ store' = r.row
           /\ blog' = Append(blog, [nowMs |-> nowMs, cost |-> cost, fresh |-> store = <<>>,
                                    result |-> r.result])
    /\ UNCHANGED bucket

\* The row's TTL runs out.
Expire ==
    /\ store /= <<>>
    /\ store' = <<>>
    /\ UNCHANGED <<bucket, blog>>

InitBucket ==
    /\ bucket \in BucketParameters
    /\ store = <<>>
    /\ blog = <<>>
    /\ IdleMiddleware
    /\ IdleSetup
    /\ IdleAnalysis

NextBucket ==
    \/ /\ \E nowMs \in Times, cost \in Costs : Admit(nowMs, cost)
       /\ UNCHANGED <<mwVars, setupVars, analysisVars>>
    \/ /\ Expire
       /\ UNCHANGED <<mwVars, setupVars, analysisVars>>

SpecBucket == InitBucket /\ [][NextBucket]_vars


(***************************************************************************)
(* Properties of the token bucket (SpecBucket).                            *)
(***************************************************************************)

\* C4: after any sequence of admissions, with any non-negative costs and any
\* nowMs values, the stored tokens value satisfies 0 <= tokens <= capacity.
C4_TokensWithinCapacity ==
    store /= <<>> =>
        (0 <= store[1].tokens /\ store[1].tokens <= bucket.capacity * Milli)

\* The scenario of C5: capacity 10, refillRate 1 token/s, a cost-6 admission
\* at nowMs = 0 on a fresh client followed (the row still stored) by a cost-6
\* admission at nowMs = second.
C5_Scenario(second) ==
    /\ bucket = [capacity |-> 10, refillRate |-> 1]
    /\ Len(blog) >= 2
    /\ blog[1].fresh /\ blog[1].nowMs = 0 /\ blog[1].cost = 6
    /\ ~blog[2].fresh /\ blog[2].nowMs = second /\ blog[2].cost = 6

RetriedInTime(k) ==
    /\ k + 1 <= Len(blog)
    /\ blog[k].cost <= bucket.capacity
    /\ ~blog[k].result.success
    /\ blog[k + 1].cost = blog[k].cost
    /\ blog[k + 1].nowMs = blog[k].nowMs + blog[k].result.retryAfterMs

\* C30: an admission of a cost within the capacity that is rejected at time t
\* with retryAfterMs = r is accepted when it is repeated at t + r with no other
\* admission of the client in between; an admission of a cost above the
\* capacity is never accepted.
C30_RetryAfterSuffices ==
    /\ \A k \in 1..Len(blog) : RetriedInTime(k) => blog[k + 1].result.success
    /\ \A k \in 1..Len(blog) :
           blog[k].cost > bucket.capacity => ~blog[k].result.success

\* C30 witness: a rejected admission has been repeated retryAfterMs later, the
\* client's row still stored, and was accepted with no token to spare.
C30_Witness ==
    \E k \in 1..Len(blog) :
        /\ RetriedInTime(k)
        /\ \A j \in 1..k : blog[j].nowMs <= blog[j + 1].nowMs
        /\ blog[k].result.retryAfterMs > 0
        /\ ~blog[k + 1].fresh
        /\ blog[k + 1].result = [success |-> TRUE, tokens |-> 0, retryAfterMs |-> 0]



(***************************************************************************)
(* The analyzer on its own (SpecAnalysis): one call of                     *)
(* getQueryTypeComplexity(queryAST, variables, typeWeights).               *)
(***************************************************************************)
MaxLeaves == 3

NoFields == [x \in {} |-> Num(0)]

\* The weight table of the schema
\*   type Query    { version: String, count: Int, scalars: Scalars, test: Test,
\*                   human(id: ID!): Human, hero(episode: Episode): Character,
\*                   reviews(episode: Episode!, first: Int = 5): [Review],
\*                   heroes(episode: Episode!, first: Int): [Review],
\*                   tests(first: Int = 5): [Test] }
\*   type Mutation { ping: Int }
\*   type Scalars  { num: Int, id: ID, test: Test }
\*   type Test     { name: String, scalars: Scalars }
\*   type Review   { stars: Int!, episode: Episode }
\*   interface Character { id: ID!, name: String!, friends(first: Int): [Character] }
\*   type Human implements Character
\*   enum Episode  { NEWHOPE, EMPIRE, JEDI }
\* for a root weight and an object weight, in the encoding the walker reads:
\* a leaf field is its weight, a bounded list field is its multiplier, and an
\* object-typed field has no descriptor.
TypeWeights(root, object) ==
    [query     |-> [weight |-> root,
                    fields |-> [version |-> Num(0), count |-> Num(0),
                                reviews |-> List("first", TRUE, 5),
                                heroes  |-> List("first", FALSE, 0),
                                tests   |-> List("first", TRUE, 5)]],
     mutation  |-> [weight |-> 10, fields |-> [ping |-> Num(0)]],
     scalars   |-> [weight |-> object, fields |-> [num |-> Num(0), id |-> Num(0)]],
     test      |-> [weight |-> object, fields |-> [name |-> Num(0)]],
     review    |-> [weight |-> object, fields |-> [stars |-> Num(0)]],
     character |-> [weight |-> object,
                    fields |-> [id |-> Num(0), name |-> Num(0),
                                friends |-> List("first", FALSE, 0)]],
     human     |-> [weight |-> object,
                    fields |-> [id |-> Num(0), name |-> Num(0),
                                friends |-> List("first", FALSE, 0)]],
     episode   |-> [weight |-> 0, fields |-> NoFields]]

Tables == {TypeWeights(root, object) : root \in {1, 2}, object \in {1, 3}}

\* The leaf fields of the root types.
RootLeaves == [query |-> {"version", "count"}, mutation |-> {"ping"}]

\* operation { f1 f2 .. fk } for leaf fields of the operation's root type
LeafOnlyQueries ==
    UNION {{Operation(op, [i \in 1..k |-> Leaf(f[i])]) :
                f \in [1..k -> RootLeaves[op]]} :
           op \in {"query", "mutation"}, k \in 1..MaxLeaves}

ScalarsNum == Field("scalars", <<>>, SelectionSet(<<Leaf("num")>>))
ScalarsId  == Field("scalars", <<>>, SelectionSet(<<Leaf("id")>>))
TestName   == Field("test", <<>>, SelectionSet(<<Leaf("name")>>))
StarsEpisode == SelectionSet(<<Leaf("stars"), Leaf("episode")>>)

\* query { scalars { num } }
OneField == Query(<<ScalarsNum>>)
\* query { scalars { num } test { name } }
TwoFields == Query(<<ScalarsNum, TestName>>)
\* query { scalars { num, test { name } } }
OneLevel == Query(<<Field("scalars", <<>>, SelectionSet(<<Leaf("num"), TestName>>))>>)
\* query { scalars { num, test { name, scalars { id } } } }
TwoLevels ==
    Query(<<Field("scalars", <<>>, SelectionSet(<<Leaf("num"),
              Field("test", <<>>, SelectionSet(<<Leaf("name"), ScalarsId>>))>>))>>)
\* query { scalars { num } scalars { id } }
Unaliased == Query(<<ScalarsNum, ScalarsId>>)
\* query { foo: scalars { num } bar: scalars { id } }
WithAliases == Query(<<Aliased("foo", ScalarsNum), Aliased("bar", ScalarsId)>>)
\* query { foo: scalars { n: num } bar: scalars { id } }
WithInnerAlias ==
    Query(<<Aliased("foo", Field("scalars", <<>>,
                                 SelectionSet(<<Aliased("n", Leaf("num"))>>))),
            Aliased("bar", ScalarsId)>>)
\* query { hero(episode: EMPIRE) { id, name } }
Hero == Query(<<Field("hero", <<EnumArg("episode", "EMPIRE")>>,
                      SelectionSet(<<Leaf("id"), Leaf("name")>>))>>)
\* query { human(id: 1) { id, name } }
Human == Query(<<Field("human", <<IntArg("id", 1)>>,
                       SelectionSet(<<Leaf("id"), Leaf("name")>>))>>)
\* query { reviews(episode: NEWHOPE, first: 3) { stars, episode } }
ReviewsLiteral ==
    Query(<<Field("reviews", <<EnumArg("episode", "NEWHOPE"), IntArg("first", 3)>>,
                  StarsEpisode)>>)
\* query { reviews(episode: NEWHOPE) { stars, episode } }
ReviewsDefault ==
    Query(<<Field("reviews", <<EnumArg("episode", "NEWHOPE")>>, StarsEpisode)>>)
\* query ($items: Int) { heroes(episode: NEWHOPE, first: $items) { stars, episode } }
HeroesVariable ==
    Query(<<Field("heroes", <<EnumArg("episode", "NEWHOPE"), VarArg("first", "items")>>,
                  StarsEpisode)>>)
\* query ($items: Int) { heroes(episode: NEWHOPE, first: 3) { stars, episode } }
HeroesLiteral ==
    Query(<<Field("heroes", <<EnumArg("episode", "NEWHOPE"), IntArg("first", 3)>>,
                  StarsEpisode)>>)
\* query { human(id: 1) { name, friends(first: 5) { name, friends(first: 3) { name } } } }
NestedLists ==
    Query(<<Field("human", <<IntArg("id", 1)>>,
              SelectionSet(<<Leaf("name"),
                Field("friends", <<IntArg("first", 5)>>,
                  SelectionSet(<<Leaf("name"),
                    Field("friends", <<IntArg("first", 3)>>,
                          SelectionSet(<<Leaf("name")>>))>>))>>))>>)
\* query { tests(first: 3) { name } }
TestsLeaf == Query(<<Field("tests", <<IntArg("first", 3)>>, SelectionSet(<<Leaf("name")>>))>>)
\* query { tests(first: 3) { scalars { num } } }
TestsLiteral == Query(<<Field("tests", <<IntArg("first", 3)>>, SelectionSet(<<ScalarsNum>>))>>)
\* query { tests(first: 3) { scalars { num } scalars { id } } }
TestsTwo ==
    Query(<<Field("tests", <<IntArg("first", 3)>>, SelectionSet(<<ScalarsNum, ScalarsId>>))>>)
\* query ($items: Int) { tests(first: $items) { scalars { num } } }
TestsVariable ==
    Query(<<Field("tests", <<VarArg("first", "items")>>, SelectionSet(<<ScalarsNum>>))>>)
\* query { tests { scalars { num } } }
TestsDefault == Query(<<Field("tests", <<>>, SelectionSet(<<ScalarsNum>>))>>)

Queries ==
    LeafOnlyQueries \cup
    {OneField, TwoFields, OneLevel, TwoLevels, Unaliased, WithAliases, WithInnerAlias,
     Hero, Human, ReviewsLiteral, ReviewsDefault, HeroesVariable, HeroesLiteral,
     NestedLists, TestsLeaf, TestsLiteral, TestsTwo, TestsVariable, TestsDefault}

\* The variables sent with a request.
VariableSets ==
    {NoVariables, [items |-> 7, first |-> 4], [first |-> 7], [items |-> 7],
     [tests |-> 2]}

NotAnalyzed == [done |-> FALSE, cost |-> Ok(0)]

InitAnalysis ==
    /\ analysisIn \in [queryAST : Queries, variables : VariableSets, typeWeights : Tables]
    /\ analysisOut = NotAnalyzed
    /\ IdleMiddleware
    /\ IdleSetup
    /\ IdleBucket

\* const cost = getQueryTypeComplexity(queryAST, variables, typeWeights)
Analyze ==
    /\ ~analysisOut.done
    /\ analysisOut' =
           [done |-> TRUE,
            cost |-> getQueryTypeComplexity(analysisIn.queryAST, analysisIn.variables,
                                            analysisIn.typeWeights)]
    /\ UNCHANGED analysisIn

NextAnalysis == Analyze /\ UNCHANGED <<mwVars, setupVars, bucketVars>>

SpecAnalysis == InitAnalysis /\ [][NextAnalysis]_vars


(***************************************************************************)
(* Properties of the analyzer (SpecAnalysis).                              *)
(***************************************************************************)
Analyzed == analysisOut.done
Cost == analysisOut.cost
TheQuery == analysisIn.queryAST
TheTable == analysisIn.typeWeights
TheVariables == analysisIn.variables
\* the one operation of the query and its selections
TheOperation == TheQuery.definitions[1]
RootSelections == TheOperation.selectionSet[1].selections
RootWeight == TheTable[TheOperation.operation].weight

\* C12: with non-negative weights and multiplier results, the analysis of
\* every query returns a non-negative integer.
C12_CostIsNonNegative ==
    Analyzed => (~Cost.err /\ Cost.val >= 0)

\* every selection of the query is a leaf field of the root type, of weight 0
LeafOnly ==
    \A k \in 1..Len(RootSelections) :
        /\ RootSelections[k].selectionSet = <<>>
        /\ FieldDescriptor(TheTable, TheOperation.operation,
                           RootSelections[k].name).tag = "number"
        /\ FieldDescriptor(TheTable, TheOperation.operation,
                           RootSelections[k].name).weight = 0

GivenAll(variables) == [defined |-> TRUE, map |-> variables]

\* The element type of the schema's list fields.
ElementType ==
    [reviews |-> "review", heroes |-> "review", tests |-> "test",
     friends |-> "character"]

\* the root selection k is a bounded list field of the query root
IsRootList(k) ==
    /\ TheOperation.operation = "query"
    /\ RootSelections[k].name \in DOMAIN ElementType
    /\ FieldDescriptor(TheTable, "query", RootSelections[k].name).tag = "function"

\* C14: a bounded list field whose multiplier rule yields m and whose selection
\* set, evaluated with the list's element type as the parent, costs s
\* contributes s + m when s <= 1 and s * m otherwise.
C14_ListContribution ==
    Analyzed =>
        \A k \in 1..Len(RootSelections) :
            IsRootList(k) =>
                LET F == RootSelections[k]
                    s == selectionSetNode(F.selectionSet[1], TheTable, TheVariables,
                                          ElementType[F.name])
                    m == Multiplier(FieldDescriptor(TheTable, "query", F.name),
                                    F.arguments, GivenAll(TheVariables))
                IN  (~s.err /\ ~m.err) =>
                        fieldNode(F, TheTable, TheVariables, "query") =
                            Ok(IF s.val <= 1 THEN s.val + m.val ELSE s.val * m.val)

\* C15: a list bounded by n whose element type weighs w and whose selection
\* has nested cost c contributes n * (w + c), at every depth: the nested
\* friends query costs 22 with all weights 1, heroes(first: 3) costs 10 with
\* object weight 3, and a list of n elements with leaf selections costs n * w.
C15_ListsMultiply ==
    Analyzed =>
        /\ (TheQuery = NestedLists /\ TheTable = TypeWeights(1, 1)) => Cost = Ok(22)
        /\ (TheQuery = HeroesLiteral /\ TheTable = TypeWeights(1, 3)) => Cost = Ok(10)
        /\ (TheQuery \in {ReviewsLiteral, HeroesLiteral, TestsLeaf}) =>
               Cost = Ok(RootWeight
                         + 3 * TheTable[ElementType[RootSelections[1].name]].weight)

\* the selections hold only leaf fields and object-typed fields named by their type
RECURSIVE OnlyObjectsAndLeaves(_, _)
OnlyObjectsAndLeaves(selections, parentName) ==
    \A k \in 1..Len(selections) :
        IF selections[k].selectionSet = <<>>
        THEN FieldDescriptor(TheTable, parentName, selections[k].name).tag = "number"
        ELSE /\ selections[k].name \in DOMAIN TheTable
             /\ selections[k].name \notin DOMAIN ElementType
             /\ OnlyObjectsAndLeaves(selections[k].selectionSet[1].selections,
                                     selections[k].name)

\* the sum of the weights of the types of the object-typed fields selected
RECURSIVE ObjectWeights(_, _)
ObjectWeights(selections, k) ==
    IF k > Len(selections) THEN 0
    ELSE (IF selections[k].selectionSet = <<>> THEN 0
          ELSE TheTable[selections[k].name].weight
               + ObjectWeights(selections[k].selectionSet[1].selections, 1))
         + ObjectWeights(selections, k + 1)

\* C16: a query of object-typed (non-list) fields and leaf fields only costs
\* the root type's weight plus the weight of the type of every object-typed
\* field it selects, at any depth and with any number of siblings.
C16_ObjectsAdd ==
    (Analyzed /\ TheOperation.operation = "query"
              /\ OnlyObjectsAndLeaves(RootSelections, "query")) =>
        Cost = Ok(RootWeight + ObjectWeights(RootSelections, 1))

\* C17: an object-typed field whose name is not a type key is costed with the
\* weight of the type it resolves to: hero { id, name } costs the root weight
\* plus the weight of character, and no error is raised.
C17_ObjectFieldByResolvedType ==
    (Analyzed /\ TheQuery = Hero) =>
        Cost = Ok(RootWeight + TheTable["character"].weight)

\* C18: a slicing argument given as a variable reference $v makes the
\* multiplier variables[v] (first: $items with items = 7 costs 8 with all
\* weights 1, whatever else the variables hold); with a literal slicing
\* argument the variables do not influence the cost.
C18_SlicingVariables ==
    Analyzed =>
        /\ (TheQuery = HeroesVariable /\ TheTable = TypeWeights(1, 1)
              /\ "items" \in DOMAIN TheVariables) => Cost = Ok(1 + TheVariables["items"])
        /\ (TheQuery = TestsVariable /\ "items" \in DOMAIN TheVariables) =>
               Cost = Ok(RootWeight + Combine(TheTable["scalars"].weight,
                                              TheVariables["items"]))
        /\ (TheQuery \in {HeroesLiteral, TestsLiteral, TestsTwo}) =>
               Cost = documentNode(TheQuery, TheTable, NoVariables)
        /\ (TheQuery = HeroesLiteral /\ TheTable = TypeWeights(1, 1)) => Cost = Ok(4)

\* a query with every alias removed
RECURSIVE Unaliased_(_)
Unaliased_(selections) ==
    [k \in 1..Len(selections) |->
        [selections[k] EXCEPT
            !.alias = "",
            !.selectionSet = IF @ = <<>> THEN <<>>
                             ELSE SelectionSet(Unaliased_(@[1].selections))]]
WithoutAliases(queryAST) ==
    [definitions |->
        [d \in 1..Len(queryAST.definitions) |->
            [queryAST.definitions[d] EXCEPT
                !.selectionSet = SelectionSet(Unaliased_(@[1].selections))]]]

\* some selection of the query root carries an alias
HasRootAlias == \E k \in 1..Len(RootSelections) : RootSelections[k].alias /= ""

\* the sum of the costs of the root selections, each costed on its own
RECURSIVE EachOnItsOwn(_)
EachOnItsOwn(k) ==
    IF k > Len(RootSelections) THEN 0
    ELSE fieldNode(RootSelections[k], TheTable, TheVariables,
                   TheOperation.operation).val + EachOnItsOwn(k + 1)

InlineFragment(selections) ==
    [kind |-> "InlineFragment", name |-> "", alias |-> "", arguments |-> <<>>,
     selectionSet |-> SelectionSet(selections)]
\*   ...name
FragmentSpread(name) ==
    [kind |-> "FragmentSpread", name |-> name, alias |-> "", arguments |-> <<>>,
     selectionSet |-> <<>>]

\* The definition nodes of a document.
OperationDefinition(operation, selections) ==
    [kind |-> "OperationDefinition", operation |-> operation,
     selectionSet |-> SelectionSet(selections)]
\*   fragment name on Type { selections }
FragmentDefinition(selections) ==
    [kind |-> "FragmentDefinition", operation |-> "",
     selectionSet |-> SelectionSet(selections)]
Document(definitions) == [definitions |-> definitions]

\* { num test { name } }, { id }, reviews(first: 3) { stars }
NumTestName == <<Leaf("num"), Field("test", <<>>, SelectionSet(<<Leaf("name")>>))>>
HeroId == Field("hero", <<>>, SelectionSet(<<Leaf("id")>>))
ReviewsStars ==
    Field("reviews", <<IntArg("first", 3)>>, SelectionSet(<<Leaf("stars")>>))

\* subscription { scalars { num } }
SubscriptionOnly == Document(<<OperationDefinition("subscription", <<ScalarsNum>>)>>)
\* subscription { hero { id } }
SubscriptionHero == Document(<<OperationDefinition("subscription", <<HeroId>>)>>)
\* query { version } mutation { ping }
QueryAndMutation ==
    Document(<<OperationDefinition("query", <<Leaf("version")>>),
               OperationDefinition("mutation", <<Leaf("ping")>>)>>)
\* subscription { scalars { num } } query { scalars { num } }
SubscriptionAndQuery ==
    Document(<<OperationDefinition("subscription", <<ScalarsNum>>),
               OperationDefinition("query", <<ScalarsNum>>)>>)
\* query { version } query { scalars { num } } query { reviews(first: 3) { stars } }
ThreeQueries ==
    Document(<<OperationDefinition("query", <<Leaf("version")>>),
               OperationDefinition("query", <<ScalarsNum>>),
               OperationDefinition("query", <<ReviewsStars>>)>>)
\* fragment F on Scalars { num test { name } }
FragmentOnly == Document(<<FragmentDefinition(NumTestName)>>)
\* query { scalars { num } } fragment F on Scalars { num test { name } }
QueryAndFragment ==
    Document(<<OperationDefinition("query", <<ScalarsNum>>),
               FragmentDefinition(NumTestName)>>)
\* query { scalars { num test { name } } }
ScalarsPlain ==
    Document(<<OperationDefinition("query",
                   <<Field("scalars", <<>>, SelectionSet(NumTestName))>>)>>)
\* query { scalars { ... on Scalars { num test { name } } } }
ScalarsInline ==
    Document(<<OperationDefinition("query",
                   <<Field("scalars", <<>>,
                           SelectionSet(<<InlineFragment(NumTestName)>>))>>)>>)
\* query { ... on Query { scalars { num } reviews(first: 3) { stars } } }
RootInline ==
    Document(<<OperationDefinition("query",
                   <<InlineFragment(<<ScalarsNum, ReviewsStars>>)>>)>>)
\* query { ... on Query { hero { id } } }
HeroInline ==
    Document(<<OperationDefinition("query", <<InlineFragment(<<HeroId>>)>>)>>)
\* query { version ...F } fragment F on Query { scalars { num } }
QueryWithSpread ==
    Document(<<OperationDefinition("query", <<Leaf("version"), FragmentSpread("F")>>),
               FragmentDefinition(<<ScalarsNum>>)>>)
\* query { scalars { num } ... on Query { reviews(first: 3) { stars } } }
FieldAndInline ==
    Document(<<OperationDefinition("query",
                   <<ScalarsNum, InlineFragment(<<ReviewsStars>>)>>)>>)
\* query { reviews(first: 3) { ... on Review { stars } ...F } }
ReviewsInline ==
    Document(<<OperationDefinition("query",
                   <<Field("reviews", <<IntArg("first", 3)>>,
                           SelectionSet(<<InlineFragment(<<Leaf("stars")>>),
                                          FragmentSpread("F")>>))>>)>>)

Documents ==
    {NoDocument, SubscriptionOnly, SubscriptionHero, QueryAndMutation,
     SubscriptionAndQuery, ThreeQueries, FragmentOnly, QueryAndFragment,
     ScalarsPlain, ScalarsInline, RootInline, HeroInline, QueryWithSpread,
     FieldAndInline, ReviewsInline}

InitDocuments ==
    /\ analysisIn \in [queryAST : Documents, variables : VariableSets, typeWeights : Tables]
    /\ analysisOut = NotAnalyzed
    /\ IdleMiddleware
    /\ IdleSetup
    /\ IdleBucket

SpecDocuments == InitDocuments /\ [][NextAnalysis]_vars


(***************************************************************************)
(* Properties of the analyzer on documents (SpecDocuments).                *)
(***************************************************************************)
Definitions == TheQuery.definitions

\* the definition is an operation whose kind is a key of the weight table
InTable(definition) ==
    definition.kind = "OperationDefinition" /\ definition.operation \in DOMAIN TheTable

\* what a definition adds to the cost of its document
Contribution(definition) ==
    IF InTable(definition)
    THEN definitionNode(definition, TheTable, TheVariables)
    ELSE Ok(0)

RECURSIVE SumOfContributions(_)
SumOfContributions(k) ==
    IF k = 0 THEN 0 ELSE SumOfContributions(k - 1) + Contribution(Definitions[k]).val

\* C28: an operation definition whose kind is not a key of the weight table
\* adds 0 whatever it selects, a definition that is not an operation adds 0,
\* and the cost of a document is the sum of what its definitions add.
C28_DocumentIsSumOfOperations ==
    Analyzed =>
        /\ \A k \in 1..Len(Definitions) :
               ~InTable(Definitions[k]) =>
                   definitionNode(Definitions[k], TheTable, TheVariables) = Ok(0)
        /\ (\A k \in 1..Len(Definitions) : ~Contribution(Definitions[k]).err) =>
               Cost = Ok(SumOfContributions(Len(Definitions)))

\* C28 witness: a document of a subscription, which the table does not know,
\* and a query has been analyzed, and costs what the query costs alone.
C28_Witness ==
    /\ Analyzed
    /\ TheQuery = SubscriptionAndQuery
    /\ Cost = Ok(TheTable["query"].weight + TheTable["scalars"].weight)

\* a selection list without its fragment spreads and inline fragments, at
\* every depth
RECURSIVE FieldsOnly(_)
FieldsOnly(selections) ==
    LET kept == SelectSeq(selections, LAMBDA n : n.kind = "Field")
    IN  [k \in 1..Len(kept) |->
            IF kept[k].selectionSet = <<>> THEN kept[k]
            ELSE [kept[k] EXCEPT !.selectionSet =
                      SelectionSet(FieldsOnly(kept[k].selectionSet[1].selections))]]

WithoutFragments(document) ==
    Document([k \in 1..Len(document.definitions) |->
                 [document.definitions[k] EXCEPT !.selectionSet =
                      SelectionSet(FieldsOnly(document.definitions[k].selectionSet[1].selections))]])

\* the document selects something that is not a field
HasFragmentSelection == TheQuery /= WithoutFragments(TheQuery)

==============================================================================
